---- MODULE Spec2Model ----
(***************************************************************************)
(* The assignment engine of random/perturbation_experiment, in its two     *)
(* deployed revisions:                                                     *)
(*   group variant       deploy/server.py       (/api/assign, 3 groups)    *)
(*   repetition variant  deploy copy/server.py  (/api/assign_repetition)   *)
(* One installation runs one of the two servers; `variant` says which.     *)
(* Strings that the code takes apart (participant ids, file names) are     *)
(* sequences of tokens, so that f"{pid}_{ts}.csv" and str.startswith are   *)
(* computed, not assumed.                                                  *)
(***************************************************************************)
EXTENDS Integers, Sequences, FiniteSets, TLC

VARIABLES
    variant,   \* "group" | "rep": which server.py is deployed
    clock,     \* time.time(), in whole ticks
    store,     \* the content of data/assignments.json
    dataDir,   \* the *.csv file names in DATA_DIR
    resp,      \* the response of the last request handled
    log,       \* history: one entry per allocation decision, in order
    handled,   \* history: the number of requests answered so far
    threads    \* SpecConc only: the requests in flight, each with its locals

vars == <<variant, clock, store, dataDir, resp, log, handled, threads>>

----------------------------------------------------------------------------
(* Bounds of the model.  The two timeouts and TOTAL_REPS are the program's *)
(* constants scaled down: 30*60 s (deploy/server.py:104), 2*60*60 s        *)
(* (deploy copy/server.py:158) and 27 (deploy copy/server.py:157).         *)

MaxClock == 2
NumThreads == 2
MaxRequests == 3
ASSIGNMENT_TIMEOUT_SECONDS == 1
SESSION_TIMEOUT == 1
TOTAL_REPS == 2

----------------------------------------------------------------------------
(* Strings *)

PidA == <<"a">>
PidB == <<"b">>
PidAB == <<"a", "_", "b">>
Pids == {PidA, PidB, PidAB}

\* request.json of a request: the participantId key may be missing, and the
\* value may be the empty string; csv is the csvData of a submission
Missing == [present |-> FALSE, id |-> <<>>, csv |-> <<>>]
Given(s) == [present |-> TRUE, id |-> s, csv |-> <<>>]
WithCsv(req, csv_content) == [req EXCEPT !.csv = csv_content]
Requests == {Missing, Given(<<>>)} \cup {Given(p) : p \in Pids}

\* The requests tried on the servers one at a time.  The group server never
\* looks at a file name, so two participants are followed there.
RequestsOf(v) ==
    IF v = "group" THEN Requests \ {Given(PidAB)} ELSE Requests

\* data.get('participantId'): None when the key is missing.  `not pid` is
\* true of None and of ''.
IsFalsyNoneOnly(req) == ~req.present
IsFalsy(req) == ~req.present \/ req.id = <<>>

\* data.get('participantId', 'unknown')
GetOrUnknown(req) == IF req.present THEN req.id ELSE <<"unknown">>

startswith(s, pre) == Len(s) >= Len(pre) /\ SubSeq(s, 1, Len(pre)) = pre
endswith(s, suf) ==
    Len(s) >= Len(suf) /\ SubSeq(s, Len(s) - Len(suf) + 1, Len(s)) = suf

\* f"{participant_id}_{timestamp}.csv"
CsvName(pid, ts) == pid \o <<"_", ToString(ts), ".csv">>

----------------------------------------------------------------------------
(* Files and maps *)

EmptyMap == <<>>
Put_all(m, k, v) == [x \in DOMAIN m \cup {k} |-> v]
Put(m, k, v) == [x \in DOMAIN m \cup {k} |-> IF x = k THEN v ELSE m[x]]
Restrict(m, S) == [x \in S |-> m[x]]

\* data/assignments.json: not there, there with no parsable content (zero
\* bytes after open(..., 'w'), or cut short), or there holding a JSON value
NoFile == [kind |-> "absent", val |-> EmptyMap]
EmptyFile == [kind |-> "empty", val |-> EmptyMap]
JsonFile(v) == [kind |-> "json", val |-> v]

\* responses; NoCond stands for "the body carries no condition"
NoCond == -1
NoResp == [op |-> "none", req |-> Missing, status |-> 0, cond |-> NoCond]
Response(op, req, status, cond) ==
    [op |-> op, req |-> req, status |-> status, cond |-> cond]

\* one more request answered; the model follows MaxRequests requests
Answered == handled < MaxRequests /\ handled' = handled + 1

LogEntry(pid, cond, status) ==
    [pid |-> pid, cond |-> cond, at |-> clock, status |-> status]

----------------------------------------------------------------------------
(* Group variant: deploy/server.py *)

Groups == {0, 1, 2}
GroupKeys == {"0", "1", "2"}

\* int(g) for the keys of state['completed']
IntOfKey(k) == CASE k = "0" -> 0 [] k = "1" -> 1 [] k = "2" -> 2

DefaultState == [active |-> EmptyMap, completed |-> [k \in GroupKeys |-> 0]]

\* The module imports flask, flask_cors, os and time; the only `import json`
\* is a local one inside save_data.  In load_assignments and
\* save_assignments the name json is unbound: using it raises NameError.
json_imported == FALSE

\* load_assignments: the bare except turns every failure, the NameError
\* included, into the default state
load_assignments(f) ==
    IF f.kind = "absent" THEN DefaultState
    ELSE IF json_imported /\ f.kind = "json" THEN f.val
    ELSE DefaultState

\* save_assignments: open(ASSIGNMENTS_FILE, 'w') creates or truncates the
\* file, then json.dump(...) is evaluated.  Returns the file left behind and
\* whether an exception leaves the function.
save_assignments(f, data) ==
    IF json_imported
    THEN [file |-> JsonFile(data), raised |-> FALSE]
    ELSE [file |-> EmptyFile, raised |-> TRUE]

\* fresh_active: the sessions younger than the timeout
fresh_active(active, now) ==
    Restrict(active, {pid \in DOMAIN active :
                 (now - active[pid].timestamp) < ASSIGNMENT_TIMEOUT_SECONDS})

RECURSIVE SumOver(_, _)
SumOver(f, S) ==
    IF S = {} THEN 0
    ELSE LET x == CHOOSE y \in S : TRUE IN f[x] + SumOver(f, S \ {x})

\* counts: completed plus active, per group
group_counts(state, fresh) ==
    [g \in Groups |->
        SumOver(state.completed,
                {k \in DOMAIN state.completed : IntOfKey(k) = g})
        + Cardinality({pid \in DOMAIN fresh : fresh[pid].group = g})]

MinOf(S) == CHOOSE x \in S : \A y \in S : x <= y
MaxOf(S) == CHOOSE x \in S : \A y \in S : x >= y

\* the groups random.choice draws from
group_candidates(counts) ==
    LET min_load == MinOf({counts[g] : g \in Groups})
    IN {g \in Groups : counts[g] = min_load}

\* POST /api/assign, handled from start to finish
assign_group(req) ==
    /\ variant = "group"
    /\ IF IsFalsy(req)
       THEN /\ resp' = Response("assign", req, 400, NoCond)
            /\ UNCHANGED <<store, log>>
       ELSE LET participant_id == req.id
                state == load_assignments(store)
                now == clock
                fresh == fresh_active(state.active, now)
            IN IF participant_id \in DOMAIN fresh
               THEN /\ resp' = Response("assign", req, 200,
                                        fresh[participant_id].group)
                    /\ UNCHANGED <<store, log>>
               ELSE \E assigned_group \in
                            group_candidates(group_counts(state, fresh)) :
                         LET new == [state EXCEPT !.active =
                                        Put(fresh, participant_id,
                                            [group |-> assigned_group,
                                             timestamp |-> now])]
                             out == save_assignments(store, new)
                             status == IF out.raised THEN 500 ELSE 200
                         IN /\ store' = out.file
                            /\ resp' = Response("assign", req, status,
                                          IF out.raised THEN NoCond
                                          ELSE assigned_group)
                            /\ log' = Append(log, LogEntry(participant_id,
                                                  assigned_group, status))
    /\ Answered
    /\ UNCHANGED <<variant, clock, dataDir, threads>>

\* The block of save_data after the try statement (lines 45-77: load, move
\* the participant from active to completed, save).  Both branches of the
\* try return, so the block is never executed: the file is left as it is.
save_data_update(f, pid) == f

\* POST /api/save_data, the same code in both servers up to the return
save_data(req) ==
    /\ IF req.csv = <<>>
       THEN /\ resp' = Response("save_data", req, 400, NoCond)
            /\ UNCHANGED <<store, dataDir>>
       ELSE LET participant_id == GetOrUnknown(req)
                filename == CsvName(participant_id, clock)
            IN /\ dataDir' = dataDir \cup {filename}
               /\ resp' = Response("save_data", req, 200, NoCond)
               /\ store' = IF variant = "group"
                           THEN save_data_update(store, participant_id)
                           ELSE store
    /\ Answered
    /\ UNCHANGED <<variant, clock, log, threads>>

Tick ==
    /\ clock < MaxClock
    /\ clock' = clock + 1
    /\ UNCHANGED <<variant, store, dataDir, resp, log, handled, threads>>

----------------------------------------------------------------------------
(* Repetition variant: deploy copy/server.py *)

\* range(1, TOTAL_REPS + 1)
RepRange == [i \in 1..TOTAL_REPS |-> i]

\* load_assignments: {} when the file is missing or json.load fails
load_assignments_rep(f) == IF f.kind = "json" THEN f.val ELSE EmptyMap

\* save_assignments: open(ASSIGNMENTS_FILE, 'w'), then json.dump.  io is what
\* the file system does: "ok"; "open_fails" (open raises, the file is as it
\* was); "dump_fails" (the file was truncated by open, the write raises).
save_assignments_rep(f, assignments, io) ==
    CASE io = "ok" -> [file |-> JsonFile(assignments), raised |-> FALSE]
      [] io = "open_fails" -> [file |-> f, raised |-> TRUE]
      [] io = "dump_fails" -> [file |-> EmptyFile, raised |-> TRUE]

\* the scan of os.listdir(DATA_DIR) for a file of assigned_pid
csv_exists(assigned_pid, dir) ==
    \E fname \in dir :
        startswith(fname, assigned_pid \o <<"_">>) /\ endswith(fname, <<".csv">>)

rep_is_active_inclusive(assignments, dir, now, p) ==
    /\ ~csv_exists(p, dir)
    /\ (now - assignments[p].timestamp) <= SESSION_TIMEOUT

\* the participants the scan books as active: no CSV, younger than the timeout
rep_is_active(assignments, dir, now, p) ==
    /\ ~csv_exists(p, dir)
    /\ (now - assignments[p].timestamp) < SESSION_TIMEOUT

\* rep_status after the scan of the existing assignments
rep_status_per_file(assignments, dir, now) ==
    [r \in 1..TOTAL_REPS |->
        [completed |-> Cardinality({pf \in (DOMAIN assignments) \X dir :
                          /\ assignments[pf[1]].repetition = r
                          /\ startswith(pf[2], pf[1] \o <<"_">>)
                          /\ endswith(pf[2], <<".csv">>)}),
         active |-> Cardinality({p \in DOMAIN assignments :
                          /\ assignments[p].repetition = r
                          /\ rep_is_active(assignments, dir, now, p)})]]
rep_status_counts_both(assignments, dir, now) ==
    [r \in 1..TOTAL_REPS |->
        [completed |-> Cardinality({p \in DOMAIN assignments :
                          assignments[p].repetition = r /\ csv_exists(p, dir)}),
         active |-> Cardinality({p \in DOMAIN assignments :
                          /\ assignments[p].repetition = r
                          /\ (now - assignments[p].timestamp) < SESSION_TIMEOUT})]]
rep_status_fresh_only(assignments, dir, now) ==
    [r \in 1..TOTAL_REPS |->
        [completed |-> Cardinality({p \in DOMAIN assignments :
                          /\ assignments[p].repetition = r
                          /\ csv_exists(p, dir)
                          /\ (now - assignments[p].timestamp) < SESSION_TIMEOUT}),
         active |-> Cardinality({p \in DOMAIN assignments :
                          /\ assignments[p].repetition = r
                          /\ rep_is_active(assignments, dir, now, p)})]]
rep_status(assignments, dir, now) ==
    [r \in 1..TOTAL_REPS |->
        [completed |-> Cardinality({p \in DOMAIN assignments :
                          assignments[p].repetition = r /\ csv_exists(p, dir)}),
         active |-> Cardinality({p \in DOMAIN assignments :
                          /\ assignments[p].repetition = r
                          /\ rep_is_active(assignments, dir, now, p)})]]

\* candidates: the repetitions with 0 completed and 0 active, ascending
rep_candidates(status) ==
    SelectSeq(RepRange,
              LAMBDA r : status[r].completed = 0 /\ status[r].active = 0)

candidates_unsorted_first(status) == RepRange[1]

\* sorted(range(1, TOTAL_REPS + 1), key=load)[0]: sorted is stable, so the
\* lowest index among those of least load
candidates_by_load_first(status) ==
    LET load(r) == status[r].completed + status[r].active
    IN CHOOSE r \in 1..TOTAL_REPS :
           /\ \A q \in 1..TOTAL_REPS : load(r) <= load(q)
           /\ \A q \in 1..(r - 1) : load(q) > load(r)

target_rep_zero_based(status) ==
    LET candidates == rep_candidates(status)
    IN IF candidates # <<>> THEN candidates[1] - 1
       ELSE candidates_by_load_first(status) - 1
target_rep_last(status) ==
    LET candidates == rep_candidates(status)
    IN IF candidates # <<>> THEN candidates[Len(candidates)]
       ELSE candidates_by_load_first(status)
target_rep(status) ==
    LET candidates == rep_candidates(status)
    IN IF candidates # <<>> THEN candidates[1]
       ELSE candidates_by_load_first(status)

\* POST /api/assign_repetition, handled from start to finish; every
\* exception is caught and answered with 500
assign_repetition_io(req, io) ==
    /\ variant = "rep"
    /\ IF IsFalsy(req)
       THEN /\ resp' = Response("assign", req, 400, NoCond)
            /\ UNCHANGED <<store, log>>
       ELSE LET pid == req.id
                now == clock
                assignments == load_assignments_rep(store)
            IN IF pid \in DOMAIN assignments
               THEN /\ resp' = Response("assign", req, 200,
                                        assignments[pid].repetition)
                    /\ UNCHANGED <<store, log>>
               ELSE LET target == target_rep(rep_status(assignments, dataDir, now))
                        new == Put(assignments, pid,
                                   [repetition |-> target, timestamp |-> now])
                        out == save_assignments_rep(store, new, io)
                        status == IF out.raised THEN 500 ELSE 200
                    IN /\ store' = out.file
                       /\ resp' = Response("assign", req, status,
                                     IF out.raised THEN NoCond ELSE target)
                       /\ log' = Append(log, LogEntry(pid, target, status))
    /\ Answered
    /\ UNCHANGED <<variant, clock, dataDir, threads>>

assign_repetition(req) == assign_repetition_io(req, "ok")

\* the same request when the file system refuses the write
assign_repetition_write_fails(req) ==
    \E io \in {"open_fails", "dump_fails"} :
        /\ ~IsFalsy(req)
        /\ req.id \notin DOMAIN load_assignments_rep(store)
        /\ assign_repetition_io(req, io)

----------------------------------------------------------------------------
(* Group variant, requests handled concurrently.  Flask serves each request
   on a thread of its own; assign_group names a lock file (line 127) and
   never takes a lock, so the threads' file accesses interleave freely.  A
   thread's steps are its accesses to assignments.json: the read in
   load_assignments and the open(..., 'w') with json.dump in
   save_assignments. *)

Threads == 1..NumThreads

\* overlap is history: the participants whose submission was handled while
\* this request was in flight, their own assign request having returned
IdleThread ==
    [pc |-> "idle", req |-> Missing, new |-> DefaultState,
     group |-> NoCond, resp |-> NoResp, overlap |-> {}]

\* lines 121-125: the request arrives, a missing id is answered at once
conc_start(t, req) ==
    /\ variant = "group"
    /\ threads[t].pc = "idle"
    /\ IF IsFalsy(req)
       THEN threads' = [threads EXCEPT ![t].pc = "done", ![t].req = req,
                           ![t].resp = Response("assign", req, 400, NoCond)]
       ELSE threads' = [threads EXCEPT ![t].pc = "load", ![t].req = req]
    /\ UNCHANGED <<variant, clock, store, dataDir, resp, log, handled>>

\* lines 130-170: load, prune, replay or decide; all in memory after the read
conc_load(t) ==
    /\ threads[t].pc = "load"
    /\ LET participant_id == threads[t].req.id
           state == load_assignments(store)
           now == clock
           fresh == fresh_active(state.active, now)
       IN IF participant_id \in DOMAIN fresh
          THEN /\ threads' = [threads EXCEPT ![t].pc = "done",
                                 ![t].resp = Response("assign", threads[t].req,
                                     200, fresh[participant_id].group)]
               /\ UNCHANGED log
          ELSE \E assigned_group \in
                      group_candidates(group_counts(state, fresh)) :
                  /\ threads' = [threads EXCEPT ![t].pc = "save",
                         ![t].group = assigned_group,
                         ![t].new = [state EXCEPT !.active =
                                       Put(fresh, participant_id,
                                           [group |-> assigned_group,
                                            timestamp |-> now])]]
                  /\ log' = Append(log, LogEntry(participant_id,
                                                assigned_group, 0))
    /\ UNCHANGED <<variant, clock, store, dataDir, resp, handled>>

\* lines 172-175: save_assignments, then the response
conc_save(t) ==
    /\ threads[t].pc = "save"
    /\ LET out == save_assignments(store, threads[t].new)
       IN /\ store' = out.file
          /\ threads' = [threads EXCEPT ![t].pc = "done",
                 ![t].resp = Response("assign", threads[t].req,
                                IF out.raised THEN 500 ELSE 200,
                                IF out.raised THEN NoCond ELSE threads[t].group)]
    /\ UNCHANGED <<variant, clock, dataDir, resp, log, handled>>

\* POST /api/save_data on a thread of its own: it touches assignments.json
\* nowhere (save_data_update), so its one step is the write of the CSV file
conc_save_data(req) ==
    /\ variant = "group"
    /\ IF req.csv = <<>>
       THEN /\ resp' = Response("save_data", req, 400, NoCond)
            /\ UNCHANGED <<store, dataDir, threads>>
       ELSE LET participant_id == GetOrUnknown(req)
                filename == CsvName(participant_id, clock)
                returned == \E t \in Threads :
                               /\ threads[t].pc = "done"
                               /\ threads[t].req = Given(participant_id)
            IN /\ dataDir' = dataDir \cup {filename}
               /\ resp' = Response("save_data", req, 200, NoCond)
               /\ store' = save_data_update(store, participant_id)
               /\ threads' = [t \in Threads |->
                     IF returned /\ threads[t].pc \in {"load", "save"}
                     THEN [threads[t] EXCEPT
                              !.overlap = @ \cup {participant_id}]
                     ELSE threads[t]]
    /\ UNCHANGED <<variant, clock, log, handled>>

----------------------------------------------------------------------------
(* Specifications *)

\* the submissions tried: every request with CSV data, one with none
SaveInputs ==
    {WithCsv(req, <<"csv">>) : req \in RequestsOf(variant) \ {Given(<<>>)}}
        \cup {Given(PidA)}

Init ==
    /\ variant \in {"group", "rep"}
    /\ clock = 0
    /\ store = NoFile
    /\ dataDir = {}
    /\ resp = NoResp
    /\ log = <<>>
    /\ handled = 0
    /\ threads = EmptyMap

\* requests handled one at a time
Next ==
    \/ \E req \in RequestsOf("group") : assign_group(req)
    \/ \E req \in RequestsOf("rep") : assign_repetition(req)
    \/ \E req \in SaveInputs : save_data(req)
    \/ Tick

Spec == Init /\ [][Next]_vars

\* the same, with writes of assignments.json that may fail
NextFault ==
    \/ Next
    \/ \E req \in Requests : assign_repetition_write_fails(req)

SpecFault == Init /\ [][NextFault]_vars

\* the group server with NumThreads requests in flight
InitConc ==
    /\ variant = "group"
    /\ clock = 0
    /\ store = NoFile
    /\ dataDir = {}
    /\ resp = NoResp
    /\ log = <<>>
    /\ handled = 0
    /\ threads = [t \in Threads |-> IdleThread]

NextConc ==
    \/ \E t \in Threads, req \in Requests : conc_start(t, req)
    \/ \E t \in Threads : conc_load(t)
    \/ \E t \in Threads : conc_save(t)
    \/ \E req \in SaveInputs : conc_save_data(req)

SpecConc == InitConc /\ [][NextConc]_vars

\* Each request runs on a thread of its own and takes no lock, so a request
\* that has a step to take is never kept from taking it: weak fairness on
\* every thread's load and save.
FairConc ==
    \A t \in Threads : WF_vars(conc_load(t)) /\ WF_vars(conc_save(t))

SpecConcFair == SpecConc /\ FairConc

\* One request of a participant without a record, on any well-formed
\* assignments.json and data directory: the inputs of the selection
\* (rep_status, target_rep, group_candidates) drawn from bounded sets.  Here
\* log holds the decisions made since the drawn state, and handled leaves
\* room for that one request.
PidC == <<"c">>

RepRecords(now) == [repetition : 1..TOTAL_REPS, timestamp : 0..now]
RecordMaps(now) ==
    UNION {[S -> RepRecords(now)] : S \in SUBSET Pids}

InitPick ==
    /\ variant \in {"group", "rep"}
    /\ clock \in 0..MaxClock
    /\ IF variant = "group"
       THEN store \in {NoFile, EmptyFile} /\ dataDir = {}
       ELSE /\ store \in {NoFile} \cup {JsonFile(m) : m \in RecordMaps(clock)}
            /\ dataDir \in SUBSET {CsvName(p, 0) : p \in Pids}
    /\ resp = NoResp
    /\ log = <<>>
    /\ handled = MaxRequests - 1
    /\ threads = EmptyMap

NextPick ==
    \/ assign_group(Given(PidC))
    \/ assign_repetition(Given(PidC))

SpecPick == InitPick /\ [][NextPick]_vars

----------------------------------------------------------------------------
(* What the claims speak of *)

\* a step that answers a request of the kind op
AnswerStep(op) == handled' # handled /\ resp'.op = op

\* the participant id of a request is missing or empty
MissingOrEmpty(req) == ~req.present \/ Len(req.id) = 0

TimeoutOf ==
    IF variant = "group" THEN ASSIGNMENT_TIMEOUT_SECONDS ELSE SESSION_TIMEOUT

\* the index of the latest allocation decision for p; 0 when there is none
LastDecision(p) ==
    IF \E i \in 1..Len(log) : log[i].pid = p
    THEN MaxOf({i \in 1..Len(log) : log[i].pid = p})
    ELSE 0

\* the allocation decisions so far are for pairwise distinct participants,
\* none of them older than timeout at a later decision, and nobody submitted
DistinctPids == \A i, j \in 1..Len(log) : log[i].pid = log[j].pid => i = j
NoTimeouts(timeout) ==
    \A i, j \in 1..Len(log) : i < j => log[j].at - log[i].at < timeout
NoCompletions == dataDir = {}

\* the persisted state as the group server reads it, and its loads
GroupState == load_assignments(store)
GroupLoad ==
    group_counts(GroupState, fresh_active(GroupState.active, clock))

\* the persisted state as the repetition server reads it
RepState == load_assignments_rep(store)

\* p has submitted: DATA_DIR holds a file that save_data wrote for p
Submitted(p) == \E ts \in 0..MaxClock : CsvName(p, ts) \in dataDir

\* the persisted records, whichever server runs
HasRecord(p) ==
    IF variant = "group" THEN p \in DOMAIN GroupState.active
    ELSE p \in DOMAIN RepState
RecordTime(p) ==
    IF variant = "group" THEN GroupState.active[p].timestamp
    ELSE RepState[p].timestamp
RecordCond(p) ==
    IF variant = "group" THEN GroupState.active[p].group
    ELSE RepState[p].repetition

\* p is booked as in progress by an allocation made now
ActiveNow(p) ==
    IF variant = "group"
    THEN p \in DOMAIN fresh_active(GroupState.active, clock)
    ELSE p \in DOMAIN RepState /\ rep_is_active(RepState, dataDir, clock, p)

\* p enters the load of some condition in an allocation made now
CountedNow(p) ==
    IF variant = "group" THEN ActiveNow(p)
    ELSE p \in DOMAIN RepState /\ (csv_exists(p, dataDir) \/ ActiveNow(p))

Conditions == IF variant = "group" THEN Groups ELSE 1..TOTAL_REPS

\* the completed count of condition c: stored by the group server, found by
\* the scan of DATA_DIR in the repetition server
CompletedCount(c) ==
    IF variant = "group"
    THEN SumOver(GroupState.completed,
                 {k \in DOMAIN GroupState.completed : IntOfKey(k) = c})
    ELSE rep_status(RepState, dataDir, clock)[c].completed

----------------------------------------------------------------------------
(* C1 *)

\* C1: idempotence.  When a participant whose latest allocation decision is
\* younger than the timeout calls assign again, that decision was answered
\* with a condition and the new call is answered with the same condition.
C1_Idempotent ==
    [][\A p \in Pids :
         (/\ AnswerStep("assign")
          /\ resp'.req = Given(p)
          /\ LastDecision(p) # 0
          /\ clock - log[LastDecision(p)].at < TimeoutOf)
         => /\ log[LastDecision(p)].status = 200
            /\ resp'.status = 200
            /\ resp'.cond = log[LastDecision(p)].cond]_vars

\* the repetition server's half of C1, which holds
C1_IdempotentRep ==
    [][variant = "rep" => \A p \in Pids :
         (/\ AnswerStep("assign")
          /\ resp'.req = Given(p)
          /\ LastDecision(p) # 0
          /\ clock - log[LastDecision(p)].at < TimeoutOf)
         => /\ log[LastDecision(p)].status = 200
            /\ resp'.status = 200
            /\ resp'.cond = log[LastDecision(p)].cond]_vars

----------------------------------------------------------------------------
(* C2 *)

AllDone == \A t \in Threads : threads[t].pc = "done"
DistinctNewPids ==
    /\ \A t \in Threads : ~MissingOrEmpty(threads[t].req)
    /\ \A t, u \in Threads : threads[t].req = threads[u].req => t = u

\* two requests saw load 0 for the same group and both stored a record in it
TwoTookTheSameEmptyGroup ==
    \E t, u \in Threads :
        /\ t # u
        /\ threads[t].group = threads[u].group
        /\ threads[t].resp.status = 200 /\ threads[u].resp.status = 200
        /\ \A v \in {t, u} :
              Cardinality({q \in DOMAIN threads[v].new.active :
                  threads[v].new.active[q].group = threads[v].group}) = 1

\* C2: concurrency safety.  Once NumThreads concurrent assign requests of
\* pairwise distinct new participants have all returned, the persisted state
\* holds NumThreads records, the loads sum to NumThreads, and no two requests
\* took the same group having both seen it at load 0.
C2_ConcurrentAssigns ==
    (AllDone /\ DistinctNewPids)
    => /\ Cardinality(DOMAIN GroupState.active) = NumThreads
       /\ SumOver(GroupLoad, Groups) = NumThreads
       /\ ~TwoTookTheSameEmptyGroup

----------------------------------------------------------------------------
(* C3 *)

----------------------------------------------------------------------------
(* C4 *)

\* C4: zero-first.  From the empty state, with no completions and no
\* timeouts, the i-th new participant of the repetition server is given
\* repetition i, for every i up to TOTAL_REPS.
C4_ZeroFirst ==
    (variant = "rep" /\ NoCompletions /\ NoTimeouts(SESSION_TIMEOUT))
    => \A i \in 1..Len(log) :
          i <= TOTAL_REPS => log[i].status = 200 /\ log[i].cond = i

\* TOTAL_REPS participants have been given TOTAL_REPS distinct repetitions
C4_Witness ==
    /\ variant = "rep" /\ NoCompletions /\ NoTimeouts(SESSION_TIMEOUT)
    /\ Len(log) = TOTAL_REPS
    /\ {log[i].cond : i \in 1..Len(log)} = 1..TOTAL_REPS
    /\ DOMAIN load_assignments_rep(store) = {log[i].pid : i \in 1..Len(log)}

----------------------------------------------------------------------------
(* C5 *)

\* C5: reclaim.  A participant assigned at time t who never submits is not
\* counted in any load by an allocation made later than t + timeout.
C5_Reclaim ==
    [][(AnswerStep("assign") /\ log' # log)
       => \A p \in Pids :
            (HasRecord(p) /\ ~Submitted(p) /\ clock > RecordTime(p) + TimeoutOf)
            => ~CountedNow(p)]_vars

----------------------------------------------------------------------------
(* C6 *)

\* C6: completion accounting.  A completion request of a participant with an
\* active record of condition c raises the completed count of c by one,
\* leaves every other completed count as it was and ends the active record;
\* a completion request of a participant who has submitted before changes no
\* completed count.
C6_CompletionAccounting ==
    [][\A p \in Pids :
         (/\ AnswerStep("save_data")
          /\ resp'.status = 200
          /\ GetOrUnknown(resp'.req) = p)
         => /\ ActiveNow(p) =>
                 /\ \A c \in Conditions :
                       CompletedCount(c)' = CompletedCount(c)
                          + (IF c = RecordCond(p) THEN 1 ELSE 0)
                 /\ ~ActiveNow(p)'
            /\ Submitted(p) =>
                 \A c \in Conditions : CompletedCount(c)' = CompletedCount(c)]_vars

----------------------------------------------------------------------------
(* C7 *)

\* C7: a participant whose record has reached the timeout and who calls assign
\* again is treated as new: a fresh decision is made and a record stamped
\* with the current time is stored.
C7_TimedOutIsNew ==
    [][\A p \in Pids :
         (/\ AnswerStep("assign")
          /\ resp'.req = Given(p)
          /\ HasRecord(p)
          /\ clock - RecordTime(p) >= TimeoutOf)
         => /\ log' # log
            /\ HasRecord(p)'
            /\ RecordTime(p)' = clock]_vars

----------------------------------------------------------------------------
(* C8 *)

LoadView == IF variant = "group" THEN GroupState.active ELSE RepState

\* C8: an assign request whose write of the store fails is answered with 500
\* and a later load returns what was persisted before the request.
C8_FailedWriteLeavesStore ==
    [][(AnswerStep("assign") /\ resp'.status = 500) => LoadView' = LoadView]_vars

----------------------------------------------------------------------------
(* C9 *)

\* C9: an assign request whose participant id is missing or empty is answered
\* with 400, and the store is neither written nor is any record made.
C9_MissingIdRejected ==
    [][(AnswerStep("assign") /\ MissingOrEmpty(resp'.req))
       => /\ resp'.status = 400
          /\ store' = store
          /\ log' = log]_vars

\* an empty id has been rejected by a server that holds records
C9_Witness ==
    /\ resp.op = "assign" /\ resp.status = 400
    /\ resp.req = Given(<<>>)
    /\ store.kind = "json"
    /\ DOMAIN RepState # {}

----------------------------------------------------------------------------
(* C10 *)

\* C10: a completion request that carries CSV data, of a participant with no
\* active record, is answered with success and leaves the persisted records,
\* the participants booked as active and every completed count as they were.
C10_CompletionWithoutRecord ==
    [][(/\ AnswerStep("save_data")
        /\ resp'.req.csv # <<>>
        /\ ~ActiveNow(GetOrUnknown(resp'.req)))
       => /\ resp'.status = 200
          /\ LoadView' = LoadView
          /\ \A q \in Pids : ActiveNow(q)' = ActiveNow(q)
          /\ \A c \in Conditions : CompletedCount(c)' = CompletedCount(c)]_vars

----------------------------------------------------------------------------
(* C11 *)

\* the state a load returns is the default one: nobody active, every
\* completed count 0
LoadsDefault ==
    /\ IF variant = "group" THEN GroupState = DefaultState
       ELSE RepState = EmptyMap
    /\ \A c \in Conditions : CompletedCount(c) = 0

\* the conditions a first allocation on the default state may give
DefaultTargets == IF variant = "group" THEN Groups ELSE {1}

\* C11: an assign request that finds assignments.json absent or unparsable
\* works on the default state (nobody active, every completed count 0) and
\* is answered normally, with a condition chosen on that state.
C11_LoadNeverFails ==
    [][\A p \in Pids :
         (/\ AnswerStep("assign")
          /\ resp'.req = Given(p)
          /\ store.kind \in {"absent", "empty"})
         => /\ LoadsDefault
            /\ resp'.status = 200
            /\ resp'.cond \in DefaultTargets]_vars

\* the half of C11 that is load's alone: an absent or unparsable file always
\* loads as the default state
C11_LoadHalf == store.kind \in {"absent", "empty"} => LoadsDefault

----------------------------------------------------------------------------
(* C12 *)

----------------------------------------------------------------------------
(* C13 *)

\* the load of condition c as an allocation made now computes it
Load(c) ==
    IF variant = "group" THEN GroupLoad[c]
    ELSE LET status == rep_status(RepState, dataDir, clock)
         IN status[c].completed + status[c].active

TotalLoad == SumOver([c \in Conditions |-> Load(c)], Conditions)

\* the participants an allocation decision has been made for
Allocated == {log[i].pid : i \in 1..Len(log)}

\* C13: no participant is counted both as active and as completed: the loads
\* of all conditions together never exceed the number of participants that
\* have been allocated.
C13_CountedAtMostOnce == TotalLoad <= Cardinality(Allocated)

\* a participant has submitted within the timeout, has called assign again
\* and is counted once
C13_Witness ==
    /\ resp.op = "assign" /\ resp.status = 200
    /\ Submitted(resp.req.id)
    /\ HasRecord(resp.req.id)
    /\ clock - RecordTime(resp.req.id) < TimeoutOf
    /\ Allocated = {resp.req.id}
    /\ TotalLoad = 1

----------------------------------------------------------------------------
(* C14 *)

\* C14: when the submission of a participant p, whose assign request had
\* returned, is handled while the assign request of a new participant q is in
\* flight, then after both have returned the persisted state holds the record
\* of q, no longer holds an active record of p, and the completed count of
\* the group of p is 1.
C14_NoLostUpdate ==
    \A t, u \in Threads :
        (/\ AllDone /\ DistinctNewPids
         /\ t # u
         /\ threads[t].req.id \in threads[u].overlap)
        => /\ threads[u].req.id \in DOMAIN GroupState.active
           /\ threads[t].req.id \notin DOMAIN GroupState.active
           /\ CompletedCount(threads[t].group) = 1

----------------------------------------------------------------------------
(* C15 *)

MinLoad == MinOf({Load(c) : c \in Conditions})

----------------------------------------------------------------------------
(* C16 *)

\* the conditions an allocation made now for a new participant can give:
\* random.choice draws from candidates, target_rep is one value
PossibleTargets ==
    IF variant = "group"
    THEN group_candidates(group_counts(GroupState,
                              fresh_active(GroupState.active, clock)))
    ELSE {target_rep(rep_status(RepState, dataDir, clock))}

MinLoadConditions == {c \in Conditions : Load(c) = MinLoad}

\* C16: tie-break.  In the group server, and in the repetition server when
\* no repetition has load 0, every condition of least load is a possible
\* result of an allocation.
C16_TieBreak ==
    (variant = "group" \/ \A c \in Conditions : Load(c) > 0)
    => PossibleTargets = MinLoadConditions

\* the group server's half of C16
C16_TieBreakGroup ==
    variant = "group" => PossibleTargets = MinLoadConditions

----------------------------------------------------------------------------
(* C17 *)

\* the persisted records younger than the timeout
NonStale ==
    {q \in DOMAIN LoadView : clock - LoadView[q].timestamp < TimeoutOf}

\* the record an allocation of condition c made now stores
NewRecord(c) ==
    IF variant = "group" THEN [group |-> c, timestamp |-> clock]
    ELSE [repetition |-> c, timestamp |-> clock]

\* C17: commit.  A successful assign of a participant without a record
\* younger than the timeout leaves as persisted records the earlier ones
\* younger than the timeout and one new record of the participant, holding
\* the condition returned and the current time; no completed count changes.
C17_Commit ==
    [][\A p \in Pids :
         (/\ AnswerStep("assign")
          /\ resp'.req = Given(p)
          /\ resp'.status = 200
          /\ p \notin NonStale)
         => /\ LoadView' = Put(Restrict(LoadView, NonStale), p,
                               NewRecord(resp'.cond))
            /\ \A c \in Conditions : CompletedCount(c)' = CompletedCount(c)]_vars

----------------------------------------------------------------------------
(* C18 *)

\* C18: a record that is younger than the timeout and still there after a
\* step has kept its condition and its timestamp, and an assign request
\* answered from an existing record writes nothing.  (There is at most one
\* record per participant by construction: the records are a dict keyed by
\* participant id.)
C18_RecordsImmutable ==
    [][/\ \A p \in Pids :
            (/\ HasRecord(p) /\ HasRecord(p)'
             /\ clock - RecordTime(p) < TimeoutOf)
            => /\ RecordCond(p)' = RecordCond(p)
               /\ RecordTime(p)' = RecordTime(p)
       /\ (AnswerStep("assign") /\ resp'.status = 200 /\ log' = log)
            => store' = store]_vars

\* two participants hold records and the first of them has just been answered
\* from its record
C18_Witness ==
    /\ Len(log) = 2
    /\ handled = 3
    /\ resp.op = "assign" /\ resp.status = 200
    /\ resp.req = Given(log[1].pid)
    /\ \A i \in 1..2 :
          /\ HasRecord(log[i].pid)
          /\ RecordCond(log[i].pid) = log[i].cond
          /\ RecordTime(log[i].pid) = log[i].at
    /\ resp.cond = log[1].cond

----------------------------------------------------------------------------
(* C19 *)

\* the server takes p for a participant who has submitted (repetition
\* server: the scan finds a CSV; the group server keeps no such records)
FoundCompleted(p) == variant = "rep" /\ csv_exists(p, dataDir)

\* fresh_active on one record of every age within the clock's range
PruneBoundary ==
    \A ts \in 0..MaxClock, now \in 0..MaxClock :
        ts <= now =>
          LET active == [x \in {PidA} |-> [group |-> 0, timestamp |-> ts]]
          IN (PidA \in DOMAIN fresh_active(active, now))
                <=> (now - ts < ASSIGNMENT_TIMEOUT_SECONDS)

----------------------------------------------------------------------------
(* C20 *)

----------------------------------------------------------------------------
(* C21 *)

\* C21: under fair scheduling every request in flight comes to return a
\* response, and a request that has made its decision comes to return with
\* the decision persisted, that is with a response of success.
C21_ReturnsAndPersists ==
    \A t \in Threads :
        /\ (threads[t].pc = "load") ~> (threads[t].pc = "done")
        /\ (threads[t].pc = "save")
              ~> (threads[t].pc = "done" /\ threads[t].resp.status = 200)

\* the half of C21 that is about waiting: no request in flight is in flight
\* for ever
C21_Returns ==
    \A t \in Threads :
        (threads[t].pc \in {"load", "save"}) ~> (threads[t].pc = "done")

----------------------------------------------------------------------------
(* C22 *)

\* C22: every condition returned by an assign request, stored in a record or
\* decided on in an allocation is one of the configured conditions: a group
\* of Groups in the group server, a repetition of 1..TOTAL_REPS in the
\* repetition server.
C22_ConditionSpace ==
    /\ (resp.op = "assign" /\ resp.status = 200) => resp.cond \in Conditions
    /\ \A p \in DOMAIN LoadView : RecordCond(p) \in Conditions
    /\ \A i \in 1..Len(log) : log[i].cond \in Conditions

\* more participants than repetitions have been allocated, the last one by
\* the fallback rule, and all of them hold records
C22_Witness ==
    /\ variant = "rep"
    /\ Len(log) = TOTAL_REPS + 1
    /\ resp.op = "assign" /\ resp.status = 200
    /\ resp.cond = log[Len(log)].cond
    /\ \A i \in 1..Len(log) :
          HasRecord(log[i].pid) /\ RecordCond(log[i].pid) = log[i].cond
    /\ {log[i].cond : i \in 1..TOTAL_REPS} = 1..TOTAL_REPS

----------------------------------------------------------------------------
(* C23 *)

\* what the record of p alone adds to rep_status in an allocation made now
OwnStatus(p) == rep_status(Restrict(RepState, {p}), dataDir, clock)

\* C23: in the repetition server a participant with a record who has
\* submitted adds exactly one completion to their repetition, and nothing
\* else, to the counts of an allocation made at any later time, whatever the
\* age of the record and the number of their submissions; so the completed
\* count of a repetition is at least the number of its participants who have
\* submitted.
C23_SubmittedCountsOnce ==
    variant = "rep" =>
      /\ \A p \in Pids :
            (HasRecord(p) /\ Submitted(p))
            => \A c \in Conditions :
                  /\ OwnStatus(p)[c].completed
                        = (IF c = RecordCond(p) THEN 1 ELSE 0)
                  /\ OwnStatus(p)[c].active = 0
      /\ \A c \in Conditions :
            CompletedCount(c) >=
               Cardinality({p \in Pids : /\ HasRecord(p) /\ Submitted(p)
                                         /\ RecordCond(p) = c})

\* a participant has submitted, their record has reached the timeout, and a
\* later participant has been given another repetition
C23_Witness ==
    /\ variant = "rep"
    /\ Len(log) = 2
    /\ Submitted(log[1].pid) /\ ~Submitted(log[2].pid)
    /\ HasRecord(log[1].pid)
    /\ log[2].at - log[1].at >= SESSION_TIMEOUT
    /\ resp.op = "assign" /\ resp.status = 200
    /\ resp.req = Given(log[2].pid)
    /\ log[2].cond # log[1].cond
    /\ CompletedCount(log[1].cond) = 1

====
